---- MODULE Spec2Model ----
(***************************************************************************)
(* Model of update-digitalocean-dns.py: one cron-driven run resolves the   *)
(* public IPv4 address, compares it with the last line of the history log, *)
(* and on a change pushes it to the configured DigitalOcean DNS records    *)
(* and appends it to the log.  Successive runs share the log file and the  *)
(* provider's records.  Strings the code parses are sequences of           *)
(* one-character strings, so that rstrip/split/isdigit/int and the file    *)
(* iteration are computed the way Python computes them.                    *)
(***************************************************************************)
EXTENDS Integers, Sequences, FiniteSets, TLC

\* ------------------------------------------------------------------ bounds
MaxRuns == 2
MaxSegments == 5

\* ------------------------------------------------------- string primitives
Whitespace == {" ", "\n", "\t"}

Digits == {"0", "1", "2", "3", "4", "5", "6", "7", "8", "9"}

DigitValue(c) ==
    CASE c = "0" -> 0 [] c = "1" -> 1 [] c = "2" -> 2 [] c = "3" -> 3
      [] c = "4" -> 4 [] c = "5" -> 5 [] c = "6" -> 6 [] c = "7" -> 7
      [] c = "8" -> 8 [] c = "9" -> 9

\* str.rstrip(): drop every trailing whitespace character.
RECURSIVE rstrip(_)
rstrip(s) ==
    IF s = <<>> THEN s
    ELSE IF s[Len(s)] \in Whitespace THEN rstrip(SubSeq(s, 1, Len(s) - 1))
    ELSE s

\* Index of the first element of s that lies in set cs, Len(s)+1 if none.
FirstIn(s, cs) ==
    IF \E i \in 1..Len(s) : s[i] \in cs
    THEN CHOOSE i \in 1..Len(s) : s[i] \in cs /\ \A j \in 1..(i - 1) : s[j] \notin cs
    ELSE Len(s) + 1

\* str.split(sep): every separator cuts, empty pieces are kept.
RECURSIVE split_on(_, _)
split_on(s, sep) ==
    LET i == FirstIn(s, {sep})
    IN  IF i > Len(s) THEN <<s>>
        ELSE <<SubSeq(s, 1, i - 1)>> \o split_on(SubSeq(s, i + 1, Len(s)), sep)

\* str.split(): maximal runs of non-whitespace, no empty pieces.
RECURSIVE split(_)
split(s) ==
    IF s = <<>> THEN <<>>
    ELSE IF s[1] \in Whitespace THEN split(Tail(s))
    ELSE LET i == FirstIn(s, Whitespace)
         IN  <<SubSeq(s, 1, i - 1)>> \o split(SubSeq(s, i, Len(s)))

\* str.isdigit() on ASCII text.
isdigit(s) == s # <<>> /\ \A i \in 1..Len(s) : s[i] \in Digits

\* int(s) for a string of decimal digits.
RECURSIVE int(_)
int(s) ==
    IF s = <<>> THEN 0
    ELSE int(SubSeq(s, 1, Len(s) - 1)) * 10 + DigitValue(s[Len(s)])

\* "for line in file": the content cut after every newline.
RECURSIVE readlines(_)
readlines(c) ==
    IF c = <<>> THEN <<>>
    ELSE LET i == FirstIn(c, {"\n"})
         IN  IF i > Len(c) THEN <<c>>
             ELSE <<SubSeq(c, 1, i)>> \o readlines(SubSeq(c, i + 1, Len(c)))

\* sep.join(parts)
RECURSIVE Join(_, _)
Join(parts, sep) ==
    IF parts = <<>> THEN <<>>
    ELSE IF Len(parts) = 1 THEN parts[1]
    ELSE parts[1] \o <<sep>> \o Join(Tail(parts), sep)

IsPrefix(s, t) == Len(s) <= Len(t) /\ SubSeq(t, 1, Len(s)) = s


\* ------------------------------------------------------------ environment
Addr1 == <<"1", ".", "2", ".", "3", ".", "4">>

Addr2 == <<"5", ".", "6", ".", "7", ".", "8">>

\* The sentinel of read_last_public_ip_address: 'not set.'
NotSet == <<"n", "o", "t", " ", "s", "e", "t", ".">>

\* No value assigned yet (before the attribute is set).
Unset == <<>>

CfgRecord(n, t) == [name |-> n, type |-> t]

\* Contents of the configuration file: domains with their desired records.
Configurations ==
    { [domains |-> <<
          [name |-> "example.com",
           records |-> <<CfgRecord("home", "A"), CfgRecord("www", "A")>>],
          [name |-> "example.org",
           records |-> <<CfgRecord("home", "A")>>] >>],
      [domains |-> <<
          [name |-> "example.org",
           records |-> <<CfgRecord("www", "A"), CfgRecord("home", "A")>>] >>] }

DomainNames == {"example.com", "example.org"}

\* A digitalocean.Record as the provider holds it.
DnsRecord(i, n, t, d) == [id |-> i, name |-> n, type |-> t, data |-> d]

\* Record sets a domain may hold at the provider when the first run starts.
RecordLists ==
    { <<>>,
      <<DnsRecord(1, "home", "A", Addr1)>>,
      <<DnsRecord(1, "www", "A", Addr1), DnsRecord(2, "home", "A", Addr2)>>,
      <<DnsRecord(1, "home", "CNAME", Addr1), DnsRecord(2, "home", "A", Addr1),
        DnsRecord(3, "home", "A", Addr2)>> }

File(e, c) == [exists |-> e, content |-> c]

NoFile == File(FALSE, <<>>)

\* History logs the first run may find: absent, empty, written by earlier
\* runs, edited by hand (no final newline, a blank last line, a bare address).
InitialLogs ==
    { NoFile,
      File(TRUE, <<>>),
      File(TRUE, <<"T", "0", " ">> \o Addr1 \o <<"\n">>),
      File(TRUE, <<"T", "0", " ">> \o Addr1),
      File(TRUE, <<"x", "\n", "T", "0", " ">> \o Addr2 \o <<"\n">>),
      File(TRUE, Addr1 \o <<"\n", "\n">>),
      File(TRUE, Addr1 \o <<"\n">>) }

\* Credential files a run may find.
TokenFiles ==
    { NoFile,
      File(TRUE, <<"k", "\n">>),
      File(TRUE, <<"#", " ", "k">>),
      File(TRUE, <<>>),
      File(TRUE, <<"k", "\n", " ", "\n">>) }

\* Outputs of the dig command a run of the whole program may see.
RunOutputs ==
    { Addr1 \o <<"\n">>,
      Addr2 \o <<"\n">>,
      Addr2 \o <<" ", "\n", "\n">>,
      <<>>,
      <<"1", ".", "2", ".", "3", "\n">> }

\* Exit statuses of the dig command.
ReturnCodes == {0, 1}

\* ------------------------------------------------------------------ state
VARIABLES
    run,                          \* number of the current invocation
    previous,                     \* what the invocation before it left behind
    pc,                           \* position of the current invocation
    configuration,                \* the parsed configuration file
    public_ip_address_log_file,   \* the history log on disk
    provider,                     \* the provider's records, per domain
    returncode, stdout,           \* what the dig command returned
    public_ip_address,            \* DNSUpdater.public_ip_address
    last_public_ip_address,       \* DNSUpdater.last_public_ip_address
    token_file,                   \* the credential file this run found
    personal_access_token,        \* DigitalOceanDNSUpdater.personal_access_token
    domain_index, record_index,   \* positions of the two for loops
    dns_records,                  \* the records fetched for the current domain
    calls,                        \* provider calls of this invocation, in order
    messages,                     \* warnings and errors of this invocation
    appends,                      \* history lines written by this invocation
    exit_code,                    \* the process exit status once pc = "exited"
    error                         \* what ended the run early, "" if nothing

env == <<configuration, public_ip_address_log_file, provider>>

locals == <<returncode, stdout, public_ip_address, last_public_ip_address,
            token_file, personal_access_token, domain_index, record_index,
            dns_records>>

trace == <<calls, messages, appends>>

vars == <<run, previous, pc, env, locals, trace, exit_code, error>>

\* What a run leaves for the claims about the run after it: the address it
\* resolved and the domains for which a provider call raised.
Outcome(address, failed) == [address |-> address, failed |-> failed]

NoPrevious == Outcome(Unset, {})

\* The per-invocation state of a fresh process.
FreshProcess ==
    /\ pc = "main"
    /\ returncode = 0
    /\ stdout = Unset
    /\ public_ip_address = Unset
    /\ last_public_ip_address = Unset
    /\ token_file = NoFile
    /\ personal_access_token = Unset
    /\ domain_index = 0
    /\ record_index = 0
    /\ dns_records = <<>>
    /\ calls = <<>>
    /\ messages = <<>>
    /\ appends = 0
    /\ exit_code = 0
    /\ error = ""

Init ==
    /\ run = 1
    /\ previous = NoPrevious
    /\ configuration \in Configurations
    /\ public_ip_address_log_file \in InitialLogs
    /\ provider \in [DomainNames -> RecordLists]
    /\ FreshProcess

\* One line of PrintHelper output; about names the domain and the position of
\* the configured record a warning is about, <<>> otherwise.
Notice(level, text, about) == [level |-> level, text |-> text, about |-> about]

Message(level, text) == Notice(level, text, <<>>)

\* sys.exit(status), or an uncaught exception (status 1, traceback).
Exit(status, why) ==
    /\ pc' = "exited"
    /\ exit_code' = status
    /\ error' = why

\* PrintHelper.error_and_exit
error_and_exit(text) ==
    /\ messages' = Append(messages, Message("error", text))
    /\ Exit(1, text)

\* ------------------------------------------------------- Main.__init__ (1)
\* len(sys.argv) != 2: usage and sys.exit(1).
ParseArguments ==
    /\ pc = "main"
    /\ \E argc \in 1..3 :
          IF argc # 2
          THEN /\ messages' = Append(messages, Message("error", "Incorrect number of arguments."))
               /\ Exit(1, "usage")
          ELSE /\ pc' = "read_conguration"
               /\ UNCHANGED <<messages, exit_code, error>>
    /\ UNCHANGED <<run, previous, env, locals, calls, appends>>

\* Main.read_conguration: a missing or malformed file ends the run.
ReadConfiguration ==
    /\ pc = "read_conguration"
    /\ \E found \in {"ok", "FileNotFoundError", "JSONDecodeError"} :
          CASE found = "ok" ->
                 /\ pc' = "get_public_ip_address"
                 /\ UNCHANGED <<messages, exit_code, error>>
            [] found = "FileNotFoundError" ->
                 error_and_exit("Missing configuration file.")
            [] found = "JSONDecodeError" ->
                 error_and_exit("Error in configuration file")
    /\ UNCHANGED <<run, previous, env, locals, calls, appends>>

\* ------------------------------------------------------------- DNSUpdater
valid_octet_upto_256(octet) ==
    IF isdigit(octet) THEN int(octet) >= 0 /\ int(octet) <= 256 ELSE FALSE

\* not (not octet.isdigit() or int(octet) < 0 or int(octet) > 255)
valid_octet(octet) ==
    IF isdigit(octet) THEN int(octet) >= 0 /\ int(octet) <= 255 ELSE FALSE

valid_ipv4_unchecked(ip_address) == TRUE

valid_ipv4_any_count(ip_address) ==
    LET octets == split_on(ip_address, ".")
    IN  \A i \in 1..Len(octets) : valid_octet(octets[i])

\* The two checks of get_public_ip_address on the stripped output.
valid_ipv4(ip_address) ==
    LET octets == split_on(ip_address, ".")
    IN  /\ Len(octets) = 4
        /\ \A i \in 1..Len(octets) : valid_octet(octets[i])

\* DNSUpdater.get_public_ip_address, the dig command answering one of outputs.
GetPublicIpAddress(outputs) ==
    /\ pc = "get_public_ip_address"
    /\ \E rc \in ReturnCodes, out \in outputs :
          /\ returncode' = rc
          /\ stdout' = out
          /\ IF rc # 0
             THEN /\ error_and_exit("Error getting public IP address from opendns.com.")
                  /\ UNCHANGED public_ip_address
             ELSE LET ip_address == rstrip(out)
                  IN  IF valid_ipv4(ip_address)
                      THEN /\ public_ip_address' = ip_address
                           /\ pc' = "read_last_public_ip_address"
                           /\ UNCHANGED <<messages, exit_code, error>>
                      ELSE /\ error_and_exit("Invalid public IPv4 address")
                           /\ UNCHANGED public_ip_address
    /\ UNCHANGED <<run, previous, env, last_public_ip_address, token_file,
                   personal_access_token, domain_index, record_index,
                   dns_records, calls, appends>>

\* "for line in file: x = line" then "x = x.split()[-1]": the last token of
\* the last line, or the exception the two statements raise.
last_token(content) ==
    LET lines == readlines(content)
        tokens == split(lines[Len(lines)])
    IN  IF lines = <<>> THEN [raised |-> "UnboundLocalError", value |-> Unset]
        ELSE IF tokens = <<>> THEN [raised |-> "IndexError", value |-> Unset]
        ELSE [raised |-> "", value |-> tokens[Len(tokens)]]

\* DNSUpdater.read_last_public_ip_address as a function of the log file.
read_last_public_ip_address(file) ==
    IF ~file.exists THEN [raised |-> "", value |-> NotSet]
    ELSE last_token(file.content)

ReadLastPublicIpAddress ==
    /\ pc = "read_last_public_ip_address"
    /\ LET got == read_last_public_ip_address(public_ip_address_log_file)
       IN  IF got.raised = ""
           THEN /\ last_public_ip_address' = got.value
                /\ pc' = "read_access_token"
                /\ UNCHANGED <<exit_code, error>>
           ELSE /\ Exit(1, got.raised)
                /\ UNCHANGED last_public_ip_address
    /\ UNCHANGED <<run, previous, env, returncode, stdout, public_ip_address, token_file,
                   personal_access_token, domain_index, record_index,
                   dns_records, trace>>

open_truncating(content, text) == text

\* open(..., mode='a') and file.write(text)
open_append(content, text) == content \o text

history_line_address_first(timestamp, ip_address) ==
    ip_address \o <<" ">> \o timestamp \o <<"\n">>

\* f'{rfc3339(time.time())} {self.public_ip_address}\n'
history_line(timestamp, ip_address) ==
    timestamp \o <<" ">> \o ip_address \o <<"\n">>

\* rfc3339(time.time()): one token without whitespace, later runs later times.
rfc3339(n) == <<"T", CHOOSE c \in Digits : DigitValue(c) = n % 10>>

\* DNSUpdater.write_last_public_ip_address.  A missing directory raises
\* FileNotFoundError, which is caught and warned about; any other OSError
\* (a read-only file or directory) is not caught.
WriteLastPublicIpAddress ==
    /\ pc = "write_last_public_ip_address"
    /\ \E opened \in {"ok", "FileNotFoundError", "PermissionError"} :
          CASE opened = "ok" ->
                 /\ public_ip_address_log_file' =
                        File(TRUE, open_append(public_ip_address_log_file.content,
                                               history_line(rfc3339(run), public_ip_address)))
                 /\ appends' = appends + 1
                 /\ Exit(0, "")
                 /\ UNCHANGED messages
            [] opened = "FileNotFoundError" ->
                 /\ ~public_ip_address_log_file.exists
                 /\ messages' = Append(messages,
                        Message("warning", "Could not update public IP address log."))
                 /\ Exit(0, "")
                 /\ UNCHANGED <<public_ip_address_log_file, appends>>
            [] opened = "PermissionError" ->
                 /\ Exit(1, "PermissionError")
                 /\ UNCHANGED <<public_ip_address_log_file, appends, messages>>
    /\ UNCHANGED <<run, previous, configuration, provider, locals, calls>>

\* ------------------------------------------------- DigitalOceanDNSUpdater
read_access_token_missing_ok(file) ==
    IF ~file.exists THEN [raised |-> "", value |-> Unset]
    ELSE last_token(file.content)

read_access_token_deferred(file) == [raised |-> "", value |-> <<"k">>]

\* DigitalOceanDNSUpdater.read_access_token as a function of the file;
\* "exit" is error_and_exit('Missing personal access token file.').
read_access_token(file) ==
    IF ~file.exists THEN [raised |-> "exit", value |-> Unset]
    ELSE last_token(file.content)

ReadAccessToken ==
    /\ pc = "read_access_token"
    /\ \E file \in TokenFiles :
          /\ token_file' = file
          /\ LET got == read_access_token(file)
             IN  CASE got.raised = "" ->
                        /\ personal_access_token' = got.value
                        /\ pc' = "compare"
                        /\ UNCHANGED <<messages, exit_code, error>>
                   [] got.raised = "exit" ->
                        /\ error_and_exit("Missing personal access token file.")
                        /\ UNCHANGED personal_access_token
                   [] OTHER ->
                        /\ Exit(1, got.raised)
                        /\ UNCHANGED <<personal_access_token, messages>>
    /\ UNCHANGED <<run, previous, env, returncode, stdout, public_ip_address,
                   last_public_ip_address, domain_index, record_index,
                   dns_records, calls, appends>>

reversed_domains ==
    [i \in 1..Len(configuration.domains) |->
        configuration.domains[Len(configuration.domains) + 1 - i]]

\* for cfg_domain in self.configuration['domains']
Domains == configuration.domains

\* Where the run goes once domain i is done: the next domain, or the log.
AfterDomain(i) ==
    IF i < Len(Domains) THEN "get_dns_records" ELSE "write_last_public_ip_address"

always_changed == TRUE

\* self.updater.public_ip_address != self.updater.last_public_ip_address
address_changed == public_ip_address # last_public_ip_address

\* ------------------------------------------------------- Main.__init__ (2)
\* The branch of Main.__init__: enter the loop over the domains, or end.
CompareAddresses ==
    /\ pc = "compare"
    /\ IF address_changed
       THEN /\ domain_index' = 1
            /\ pc' = AfterDomain(0)
            /\ UNCHANGED <<exit_code, error>>
       ELSE /\ Exit(0, "")
            /\ UNCHANGED domain_index
    /\ UNCHANGED <<run, previous, env, returncode, stdout, public_ip_address,
                   last_public_ip_address, token_file, personal_access_token,
                   record_index, dns_records, trace>>

Call(op, domain, index, id, data, ok) ==
    [op |-> op, domain |-> domain, record |-> index, id |-> id, data |-> data, ok |-> ok]

\* Where the run goes once record j of domain i is done.
AfterRecord(i, j) ==
    IF j < Len(Domains[i].records) THEN "update_dns_record" ELSE AfterDomain(i)

\* update_domain_records up to the loop: get_dns_records lists the domain's
\* records; an exception of the client library is not caught anywhere.
GetDnsRecords ==
    /\ pc = "get_dns_records"
    /\ LET domain_name == Domains[domain_index].name
       IN  \E ok \in BOOLEAN :
              /\ calls' = Append(calls, Call("get_records", domain_name, 0, 0, Unset, ok))
              /\ IF ok
                 THEN /\ dns_records' = provider[domain_name]
                      /\ record_index' = 1
                      /\ pc' = AfterRecord(domain_index, 0)
                      /\ domain_index' =
                            IF Len(Domains[domain_index].records) = 0
                            THEN domain_index + 1 ELSE domain_index
                      /\ UNCHANGED <<exit_code, error>>
                 ELSE /\ Exit(1, "get_records raised")
                      /\ UNCHANGED <<dns_records, record_index, domain_index>>
    /\ UNCHANGED <<run, previous, env, returncode, stdout, public_ip_address,
                   last_public_ip_address, token_file, personal_access_token,
                   messages, appends>>

\* The list comprehension of update_domain_records.
matching_records(records, cfg_record) ==
    SelectSeq(records, LAMBDA r : r.name = cfg_record.name /\ r.type = cfg_record.type)

last_match(matches) == matches[Len(matches)]

\* dns_record[0]: the first element of the list comprehension.
first_match(matches) == matches[1]

\* dns_record.data = data; dns_record.save(): the provider stores the value.
save(records, id, data) ==
    [i \in DOMAIN records |->
        IF records[i].id = id THEN [records[i] EXCEPT !.data = data] ELSE records[i]]

\* One pass of the loop of update_domain_records: update_dns_record on the
\* first match, or the warning; an exception of save() is not caught.
UpdateDnsRecord ==
    /\ pc = "update_dns_record"
    /\ LET cfg_domain == Domains[domain_index]
           cfg_record == cfg_domain.records[record_index]
           dns_record == matching_records(dns_records, cfg_record)
           last == record_index = Len(cfg_domain.records)
           advance == /\ pc' = AfterRecord(domain_index, record_index)
                      /\ record_index' = IF last THEN 0 ELSE record_index + 1
                      /\ domain_index' = IF last THEN domain_index + 1 ELSE domain_index
                      /\ UNCHANGED <<exit_code, error>>
       IN  IF dns_record # <<>>
           THEN \E ok \in BOOLEAN :
                   /\ calls' = Append(calls, Call("save", cfg_domain.name, record_index,
                                                  first_match(dns_record).id, public_ip_address, ok))
                   /\ dns_records' = save(dns_records, first_match(dns_record).id, public_ip_address)
                   /\ UNCHANGED messages
                   /\ IF ok
                      THEN /\ provider' = [provider EXCEPT ![cfg_domain.name] =
                                   save(@, first_match(dns_record).id, public_ip_address)]
                           /\ advance
                      ELSE /\ Exit(1, "save raised")
                           /\ UNCHANGED <<provider, record_index, domain_index>>
           ELSE /\ messages' = Append(messages, Notice("warning", "Missing DNS",
                                                  <<cfg_domain.name, record_index>>))
                /\ advance
                /\ UNCHANGED <<calls, dns_records, provider>>
    /\ UNCHANGED <<run, previous, configuration, public_ip_address_log_file, returncode,
                   stdout, public_ip_address, last_public_ip_address, token_file,
                   personal_access_token, appends>>

\* ------------------------------------------------------- the next cron run
\* The scheduler starts the program again after the previous run has ended.
NewRun ==
    /\ pc = "exited"
    /\ run < MaxRuns
    /\ run' = run + 1
    /\ previous' = Outcome(public_ip_address,
                           { calls[k].domain : k \in { j \in 1..Len(calls) : ~calls[j].ok } })
    /\ pc' = "main"
    /\ returncode' = 0
    /\ stdout' = Unset
    /\ public_ip_address' = Unset
    /\ last_public_ip_address' = Unset
    /\ token_file' = NoFile
    /\ personal_access_token' = Unset
    /\ domain_index' = 0
    /\ record_index' = 0
    /\ dns_records' = <<>>
    /\ calls' = <<>>
    /\ messages' = <<>>
    /\ appends' = 0
    /\ exit_code' = 0
    /\ error' = ""
    /\ UNCHANGED env

Next ==
    \/ ParseArguments
    \/ ReadConfiguration
    \/ GetPublicIpAddress(RunOutputs)
    \/ ReadLastPublicIpAddress
    \/ ReadAccessToken
    \/ CompareAddresses
    \/ GetDnsRecords
    \/ UpdateDnsRecord
    \/ WriteLastPublicIpAddress
    \/ NewRun

Spec == Init /\ [][Next]_vars

\* ----------------------------------------- get_public_ip_address on its own
Octets == { <<"0", "7">>, <<"2", "5", "5">>, <<"2", "5", "6">>, <<"x">>, <<>> }

Prefixes == { <<>>, <<" ">> }

Suffixes == { <<>>, <<"\n">>, <<" ">>, <<"\n", "\n">>, <<"\t", "\n">> }

\* Outputs of the dig command: up to MaxSegments dot-separated pieces, good
\* and bad, with and without whitespace around them.
LookupOutputs ==
    { prefix \o Join(segments, ".") \o suffix :
        prefix \in Prefixes, suffix \in Suffixes,
        segments \in UNION { [1..k -> Octets] : k \in 1..MaxSegments } }

\* A process that has read its configuration and is about to run dig.
InitResolve ==
    /\ run = 1
    /\ previous = NoPrevious
    /\ configuration \in { c \in Configurations : Len(c.domains) = 2 }
    /\ public_ip_address_log_file = NoFile
    /\ provider = [d \in DomainNames |-> <<>>]
    /\ pc = "get_public_ip_address"
    /\ returncode = 0
    /\ stdout = Unset
    /\ public_ip_address = Unset
    /\ last_public_ip_address = Unset
    /\ token_file = NoFile
    /\ personal_access_token = Unset
    /\ domain_index = 0
    /\ record_index = 0
    /\ dns_records = <<>>
    /\ calls = <<>>
    /\ messages = <<>>
    /\ appends = 0
    /\ exit_code = 0
    /\ error = ""

NextResolve == GetPublicIpAddress(LookupOutputs)

SpecResolve == InitResolve /\ [][NextResolve]_vars

\* ================================================================ claims
Ended == pc = "exited"

\* Both addresses of the comparison have been obtained in this run.
BothRead == public_ip_address # Unset /\ last_public_ip_address # Unset

\* The run has read the credential file (it is past read_access_token).
TokenFileRead == last_public_ip_address # Unset /\ pc # "read_access_token"

\* The run took the branch of Main.__init__ that loops over the domains.
ChangedRun == domain_index > 0

CallsOf(op, domain_name) ==
    { k \in 1..Len(calls) : calls[k].op = op /\ calls[k].domain = domain_name }

LineCount(file) == IF file.exists THEN Len(readlines(file.content)) ELSE 0

\* The history append was tried in this run: a line was written, or the open
\* failed with the warning or with the uncaught error.
AppendAttempts ==
    appends
    + Cardinality({ k \in 1..Len(messages) :
                      messages[k].text = "Could not update public IP address log." })
    + (IF error = "PermissionError" THEN 1 ELSE 0)

\* ------------------------------------------------------------------- C1
\* C1 as stated: a run whose resolved address equals the address read from
\* the last history line makes no provider call, writes no history line and
\* ends with exit code 0.
C1_UnchangedExitsZero ==
    (Ended /\ BothRead /\ public_ip_address = last_public_ip_address) =>
        (calls = <<>> /\ appends = 0 /\ exit_code = 0)

\* C1 amended: such a run never makes a provider call nor a history write,
\* and it ends with exit code 0 exactly when the credential file yields a
\* token; otherwise read_access_token ends it with exit code 1.
C1_UnchangedNoCallsNoWrites ==
    (BothRead /\ public_ip_address = last_public_ip_address) =>
        /\ calls = <<>>
        /\ appends = 0
        /\ (Ended => (exit_code = 0 <=> (token_file.exists /\ personal_access_token # Unset)))

C1_Witness ==
    /\ Ended /\ BothRead /\ public_ip_address = last_public_ip_address
    /\ exit_code = 0 /\ calls = <<>> /\ appends = 0

\* ------------------------------------------------------------------- C2
\* C2: in a run that took the Changed branch, every configured domain has
\* its provider records fetched, whatever failed on an earlier domain.
C2_EveryDomainFetched ==
    (Ended /\ ChangedRun) =>
        \A i \in 1..Len(Domains) : CallsOf("get_records", Domains[i].name) # {}

\* ------------------------------------------------------------------- C3
\* C3: every run that took the Changed branch attempts the history append
\* exactly once, after all domains, whatever the outcomes of the provider
\* calls were, and makes no provider call after it.
C3_AppendOnceAfterAllDomains ==
    (Ended /\ ChangedRun) => AppendAttempts = 1

\* ------------------------------------------------------------------- C4
\* C4: for a domain whose records were listed, the number of update calls
\* equals the number of desired records that have a matching provider record.
C4_OneUpdatePerMatchedRecord ==
    (Ended /\ ChangedRun) =>
        \A i \in 1..Len(Domains) :
            (\E k \in CallsOf("get_records", Domains[i].name) : calls[k].ok) =>
                Cardinality(CallsOf("save", Domains[i].name)) =
                Cardinality({ j \in 1..Len(Domains[i].records) :
                    matching_records(provider[Domains[i].name], Domains[i].records[j]) # <<>> })

\* ------------------------------------------------------------------- C5
\* C5: a failed update call does not terminate the run: the run goes on to
\* the remaining desired records and ends through the history append.
C5_FailedUpdateContinues ==
    (Ended /\ \E k \in 1..Len(calls) : calls[k].op = "save" /\ ~calls[k].ok) =>
        (error # "save raised" /\ AppendAttempts = 1)

\* ------------------------------------------------------------------- C6
\* A decimal octet: digits only, and at most 255 once leading zeros are set
\* aside (stated on the digits, without the code's int()).
DecimalOctet(d) ==
    /\ d # <<>>
    /\ \A i \in 1..Len(d) : d[i] \in Digits
    /\ \E z \in 0..Len(d) :
          LET r == SubSeq(d, z + 1, Len(d))
          IN  /\ \A i \in 1..z : d[i] = "0"
              /\ r = <<>> \/ r[1] # "0"
              /\ \/ Len(r) <= 2
                 \/ /\ Len(r) = 3
                    /\ 100 * DigitValue(r[1]) + 10 * DigitValue(r[2]) + DigitValue(r[3]) <= 255

\* Exactly four decimal octets separated by three dots, nothing else.
DottedQuad(s) ==
    \E a \in 1..Len(s) :
        /\ s[a] = "."
        /\ DecimalOctet(SubSeq(s, 1, a - 1))
        /\ \E b \in (a + 1)..Len(s) :
              /\ s[b] = "."
              /\ DecimalOctet(SubSeq(s, a + 1, b - 1))
              /\ \E c \in (b + 1)..Len(s) :
                    /\ s[c] = "."
                    /\ DecimalOctet(SubSeq(s, b + 1, c - 1))
                    /\ DecimalOctet(SubSeq(s, c + 1, Len(s)))

\* A dotted quad, optionally followed by a single newline.
StrictOutput(s) ==
    \/ DottedQuad(s)
    \/ s # <<>> /\ s[Len(s)] = "\n" /\ DottedQuad(SubSeq(s, 1, Len(s) - 1))

\* A dotted quad followed by any run of whitespace.
LenientOutput(s) ==
    \E n \in 0..Len(s) :
        /\ \A i \in (n + 1)..Len(s) : s[i] \in Whitespace
        /\ DottedQuad(SubSeq(s, 1, n))

\* The lookup succeeded and validation let its output through.
Accepted == returncode = 0 /\ public_ip_address # Unset

\* The lookup succeeded and validation ended the run.
Rejected == returncode = 0 /\ Ended /\ error = "Invalid public IPv4 address"

\* C6 as stated: validation accepts exactly the outputs that are four
\* dot-separated decimal octets in 0..255 with at most one trailing newline.
C6_AcceptsExactlyStrict ==
    /\ Accepted => StrictOutput(stdout)
    /\ Rejected => ~StrictOutput(stdout)

\* C6 amended: validation accepts exactly the outputs that are four
\* dot-separated decimal octets in 0..255 followed by any amount of trailing
\* whitespace (which rstrip removes from the address), and rejects wrong
\* segment counts, non-numeric octets, octets above 255 and leading whitespace.
C6_AcceptsExactlyLenient ==
    /\ Accepted => (LenientOutput(stdout) /\ DottedQuad(public_ip_address)
                    /\ IsPrefix(public_ip_address, stdout))
    /\ Rejected => ~LenientOutput(stdout)

C6_Witness ==
    /\ Accepted
    /\ Len(stdout) >= Len(public_ip_address) + 2
    /\ \E i \in 1..Len(public_ip_address) : public_ip_address[i] = "2"

\* ------------------------------------------------------------------- C7
\* C7: once the address is resolved, read_last_public_ip_address always
\* yields a value: the sentinel for a missing log, otherwise the trailing
\* token of the last line; it never ends the run.
\* token is the trailing whitespace-delimited token of the last line of c:
\* it ends c up to blanks and one final newline, and starts c or follows
\* whitespace.
TrailingToken(c, token) ==
    /\ token # <<>>
    /\ \A i \in 1..Len(token) : token[i] \notin Whitespace
    /\ \E n \in Len(token)..Len(c) :
          /\ SubSeq(c, n - Len(token) + 1, n) = token
          /\ n = Len(token) \/ c[n - Len(token)] \in Whitespace
          /\ \A i \in (n + 1)..Len(c) :
                c[i] \in Whitespace /\ (c[i] = "\n" => i = Len(c))

C7_ReadLastNeverFails ==
    (public_ip_address # Unset /\ pc # "read_last_public_ip_address" /\ appends = 0) =>
        /\ last_public_ip_address # Unset
        /\ ~public_ip_address_log_file.exists => last_public_ip_address = NotSet
        /\ public_ip_address_log_file.exists =>
              TrailingToken(public_ip_address_log_file.content, last_public_ip_address)

\* ------------------------------------------------------------------- C8
\* This step wrote a history line.
Appended == appends' = appends + 1

RoundTrips ==
    /\ LineCount(public_ip_address_log_file') = LineCount(public_ip_address_log_file) + 1
    /\ read_last_public_ip_address(public_ip_address_log_file') =
          [raised |-> "", value |-> public_ip_address]

\* The log is absent, empty, or ends with a newline.
NewlineTerminated(file) ==
    \/ ~file.exists
    \/ file.content = <<>>
    \/ file.content[Len(file.content)] = "\n"

\* C8 as stated: whatever the log held before, a successful append adds one
\* line and a read of the last address then returns the appended address.
C8_AppendAddsOneLine == [][Appended => RoundTrips]_vars

\* C8 amended: when the log is absent, empty or ends with a newline, a
\* successful append adds one line; after any successful append a read of
\* the last address returns the appended address.
C8_AppendAddsOneLineAfterNewline ==
    [][Appended =>
          /\ NewlineTerminated(public_ip_address_log_file) => RoundTrips
          /\ read_last_public_ip_address(public_ip_address_log_file').value = public_ip_address
      ]_vars

C8_Witness ==
    /\ appends = 1
    /\ LineCount(public_ip_address_log_file) >= 2
    /\ read_last_public_ip_address(public_ip_address_log_file).value = public_ip_address

\* ------------------------------------------------------------------- C9
\* C9: the history log is append-only: every step leaves the file in place
\* and its earlier content a prefix of its content.
C9_LogAppendOnly ==
    [][/\ public_ip_address_log_file.exists => public_ip_address_log_file'.exists
       /\ IsPrefix(public_ip_address_log_file.content, public_ip_address_log_file'.content)
      ]_vars

C9_Witness ==
    /\ run = 2
    /\ appends = 1
    /\ LineCount(public_ip_address_log_file) >= 3

\* ------------------------------------------------------------------ C10
\* The run has read the credential file and found none.
CredentialMissing == TokenFileRead /\ ~token_file.exists

\* C10: a missing credential file ends the run with exit code 1 before any
\* provider call and without a history write.
C10_MissingCredentialExitsFirst ==
    CredentialMissing =>
        (Ended /\ exit_code = 1 /\ calls = <<>> /\ appends = 0)

C10_Witness ==
    /\ CredentialMissing
    /\ Ended
    /\ public_ip_address # last_public_ip_address

\* ------------------------------------------------------------------ C11
\* The history append was tried in this run and wrote nothing.
AppendFailed == Ended /\ ChangedRun /\ AppendAttempts = 1 /\ appends = 0

\* C11: when the history log cannot be appended, the failure is a warning
\* and the run still ends with exit code 0.
C11_UnwritableLogIsWarning ==
    AppendFailed =>
        /\ exit_code = 0
        /\ \E k \in 1..Len(messages) :
              messages[k] = Message("warning", "Could not update public IP address log.")

\* ------------------------------------------------------------------ C12
\* The run has executed the dig command (it got past the argument and
\* configuration checks and past get_public_ip_address).
LookupRan ==
    /\ pc \notin {"main", "read_conguration", "get_public_ip_address"}
    /\ error \notin {"usage", "Missing configuration file.", "Error in configuration file"}

\* The lookup failed, printed nothing, or printed no dotted quad.
LookupUnusable == returncode # 0 \/ stdout = <<>> \/ ~LenientOutput(stdout)

\* C12: a failed lookup, an empty output or an invalid address ends the run
\* at once with exit code 1: no address is kept, no provider call is made
\* and no history line is written.
C12_LookupFailureIsFatal ==
    (LookupRan /\ LookupUnusable) =>
        /\ Ended /\ exit_code = 1
        /\ public_ip_address = Unset /\ last_public_ip_address = Unset
        /\ calls = <<>> /\ appends = 0

C12_Witness ==
    /\ LookupRan /\ Ended
    /\ returncode = 0
    /\ stdout # <<>> /\ ~LenientOutput(stdout)
    /\ public_ip_address_log_file.exists

\* ------------------------------------------------------------------ C13
\* C13: every address kept by the run, sent to the provider in an update
\* call, stored by the provider or appended to the history log is a
\* validated IPv4 literal: four decimal octets in 0..255.
C13_OnlyValidatedAddresses ==
    /\ public_ip_address # Unset => DottedQuad(public_ip_address)
    /\ \A k \in 1..Len(calls) : calls[k].op = "save" => DottedQuad(calls[k].data)
    /\ \A d \in DomainNames : \A i \in 1..Len(provider[d]) : DottedQuad(provider[d][i].data)
    /\ appends > 0 =>
          TrailingToken(public_ip_address_log_file.content, public_ip_address)

C13_Witness ==
    /\ Ended /\ appends = 1
    /\ \E k \in 1..Len(calls) : calls[k].op = "save" /\ calls[k].ok
    /\ Len(stdout) > Len(public_ip_address) + 1

\* ------------------------------------------------------------------ C14
\* The run found no history log: read_last_public_ip_address gave the sentinel.
FirstRun == last_public_ip_address = NotSet

\* The run got as far as the comparison of Main.__init__.
ReachedComparison ==
    FirstRun /\ TokenFileRead /\ token_file.exists /\ personal_access_token # Unset
             /\ pc # "compare"

\* The sentinel differs from every validated address: a first run that
\* reaches the comparison enters the loop over the domains.
FirstRunIsChanged == ReachedComparison => ChangedRun

\* C14: a first run that reaches the comparison reconciles every configured
\* domain and attempts the history append.
C14_FirstRunReconcilesAll ==
    (ReachedComparison /\ Ended) =>
        /\ \A i \in 1..Len(configuration.domains) :
              \E k \in CallsOf("get_records", configuration.domains[i].name) : calls[k].ok
        /\ AppendAttempts = 1

\* ------------------------------------------------------------------ C16
\* Positions of the provider's records of a domain that match the configured
\* record c on name and type.
MatchPositions(domain_name, c) ==
    { i \in 1..Len(provider[domain_name]) :
        /\ provider[domain_name][i].name = c.name
        /\ provider[domain_name][i].type = c.type }

\* The configured record an update call was made for.
ConfiguredRecord(call) ==
    LET i == CHOOSE i \in 1..Len(configuration.domains) :
                 configuration.domains[i].name = call.domain
    IN  configuration.domains[i].records[call.record]

\* C16: every update call goes to the matching record that comes first in the
\* provider's list, and a configured record gets at most one update call, so
\* no other matching record is updated.
C16_FirstMatchOnly ==
    \A k \in 1..Len(calls) :
        calls[k].op = "save" =>
            LET positions == MatchPositions(calls[k].domain, ConfiguredRecord(calls[k]))
            IN  /\ positions # {}
                /\ \E i \in positions :
                      /\ provider[calls[k].domain][i].id = calls[k].id
                      /\ \A j \in positions : i <= j
                /\ \A l \in 1..Len(calls) :
                      (calls[l].op = "save" /\ calls[l].domain = calls[k].domain
                       /\ calls[l].record = calls[k].record) => l = k

C16_Witness ==
    \E k \in 1..Len(calls) :
        /\ calls[k].op = "save" /\ calls[k].ok
        /\ Cardinality(MatchPositions(calls[k].domain, ConfiguredRecord(calls[k]))) > 1
        /\ \E i \in 1..Len(provider[calls[k].domain]) :
              /\ provider[calls[k].domain][i].id # calls[k].id
              /\ provider[calls[k].domain][i].name = "home"
              /\ provider[calls[k].domain][i].type = "A"
              /\ provider[calls[k].domain][i].data # calls[k].data

\* ------------------------------------------------------------------ C17
\* Where a provider call stands in the configuration: the position of its
\* domain in the domain list, then the position of its record in the domain's
\* record list (0 for the listing of the domain's records).
ConfiguredPosition(call) ==
    << CHOOSE i \in 1..Len(configuration.domains) :
           configuration.domains[i].name = call.domain,
       call.record >>

Precedes(p, q) == p[1] < q[1] \/ (p[1] = q[1] /\ p[2] < q[2])

\* C17: the provider calls of a run follow the configuration: domains in the
\* order of the domain list and none skipped, each domain listed once and
\* before its updates, the updates in the order of the domain's records, and
\* every call of a domain before the listing of the next one.
C17_CallsInConfiguredOrder ==
    /\ \A k, l \in 1..Len(calls) :
          k < l => Precedes(ConfiguredPosition(calls[k]), ConfiguredPosition(calls[l]))
    /\ \A k \in 1..Len(calls) :
          LET p == ConfiguredPosition(calls[k])
          IN  /\ calls[k].op = "get_records" <=> p[2] = 0
              /\ calls[k].op = "save" <=> p[2] > 0
              /\ (p[2] > 0 \/ p[1] > 1) => k > 1
              /\ p[2] > 0 =>
                    \E l \in 1..(k - 1) :
                        /\ calls[l].op = "get_records" /\ calls[l].ok
                        /\ calls[l].domain = calls[k].domain
              /\ (p[2] = 0 /\ p[1] > 1) =>
                    \E l \in 1..(k - 1) :
                        /\ calls[l].op = "get_records" /\ calls[l].ok
                        /\ ConfiguredPosition(calls[l])[1] = p[1] - 1

C17_Witness ==
    /\ Ended /\ exit_code = 0
    /\ Len(configuration.domains) = 2
    /\ Len(calls) = 5

\* ------------------------------------------------------------------ C18
\* The run is at or past the comparison of Main.__init__.
AtOrPastComparison ==
    \/ pc \in {"compare", "get_dns_records", "update_dns_record",
               "write_last_public_ip_address"}
    \/ ChangedRun
    \/ Ended /\ exit_code = 0

\* C18: the credential file is read after the lookup and the history read
\* and before the comparison, in every run that gets that far: the run is at
\* read_access_token only with both addresses read and nothing compared, it
\* is at or past the comparison only with a token read, and a missing
\* credential file ends it with exit code 1 even when the resolved address
\* equals the last history entry.
C18_CredentialReadBeforeComparison ==
    /\ pc = "read_access_token" =>
          (BothRead /\ personal_access_token = Unset /\ ~ChangedRun /\ calls = <<>>)
    /\ AtOrPastComparison =>
          (BothRead /\ token_file.exists /\ personal_access_token # Unset)
    /\ (CredentialMissing /\ public_ip_address = last_public_ip_address) =>
          (Ended /\ exit_code = 1 /\ ~ChangedRun)

C18_Witness ==
    /\ CredentialMissing
    /\ BothRead /\ public_ip_address = last_public_ip_address
    /\ Ended /\ exit_code = 1

\* ------------------------------------------------------------------ C15
\* In the run before this one a provider call raised for every configured
\* domain, and this run has resolved the same address again.
SameAddressAfterFailure ==
    /\ run > 1
    /\ previous.failed = { configuration.domains[i].name : i \in 1..Len(configuration.domains) }
    /\ BothRead
    /\ public_ip_address = previous.address

\* C15: an address whose reconciliation failed for every domain is still
\* recorded in the history log, so the next run that resolves the same
\* address finds it there and makes no provider call.
C15_FailedAddressIsRecorded ==
    SameAddressAfterFailure =>
        (last_public_ip_address = public_ip_address /\ calls = <<>>)

====
